---- MODULE Spec2Model ----
(***************************************************************************)
(* Model of the symbol-resolution and price-enrichment pipeline of the     *)
(* portfolio assistant (server/services/isin_resolver.py and               *)
(* server/services/enrich_portfolio.py).                                   *)
(*                                                                         *)
(* Python strings that the code inspects character by character (ticker    *)
(* hints, ticker symbols) are sequences of one-character strings.  ISIN    *)
(* codes are only ever used as dictionary keys and are atomic strings.     *)
(* Optional[str] values are records [some, val]; None is some = FALSE.     *)
(* Prices are integers in thousandths of a rupee ("mills"), so that        *)
(* round(x, 2) is a real operation (rounding to a multiple of 10 mills).   *)
(***************************************************************************)
EXTENDS Integers, Sequences, FiniteSets, TLC

VARIABLES
    \* ---- isin_resolver.py: module globals and one resolve_ticker call
    mapping_file,     \* isin_mapping.json on disk: [ok, content]
    ISIN_MAPPING,     \* global _ISIN_MAPPING
    MAPPING_LOADED,   \* global _MAPPING_LOADED
    r_pc,             \* "pending" (call issued) | "returned"
    r_isin,           \* argument isin (Optional atomic string)
    r_hint,           \* argument ticker_hint (Optional character sequence)
    r_ret,            \* value returned by the last resolve_ticker call
    r_calls,          \* number of resolve_ticker calls issued so far
    \* ---- get_yfinance_symbol applied repeatedly to one ticker
    s_in,             \* the ticker given first
    s_out,            \* results of successive applications
    \* ---- enrich_portfolio.py: one get_latest_price call
    f_pc,             \* position in get_latest_price
    f_ticker,         \* argument ticker
    f_fallback,       \* argument fallback_price (mills)
    f_symbol,         \* local symbol
    f_trace,          \* the source queries made so far, each with its outcome
    f_ret,            \* the returned (price, success_flag) once f_pc = "done"
    f_scan,           \* the fields the latest source query examined, with their values
    \* ---- enrich_portfolio.py: one enrich_portfolio call
    e_pc,             \* "loop" | "done" | "raised"
    e_input,          \* the portfolio dict as it was when the call was made
    e_data,           \* the dict object `data` (its holdings are written in place)
    e_i,              \* index of the next holding of the for loop
    e_total_investment,     \* local total_investment (mills, unrounded)
    e_total_current_value,  \* local total_current_value (mills, unrounded)
    e_fetch,          \* what get_latest_price returned for each holding so far
    e_log,            \* the source queries, field writes and pacing delays, in order
    \* ---- parse_holdings.py: one parse_holdings call
    p_pc,             \* "start" | "extract" | "resolve" | "enrich" | "returned" | "raised"
    p_llm,            \* what the structured LLM call answers: [ok, portfolio]
    p_portfolio,      \* local raw_portfolio (the dict later passed to enrich_portfolio)
    p_i,              \* index of the next holding of the resolution loop
    p_res,            \* what resolve_ticker returned for each holding so far
    p_ret,            \* the value returned by parse_holdings
    \* ---- memory_manager.py: the MemoryManager singleton
    m_max,            \* self._max_messages
    m_use_db,         \* self._use_db
    m_sessions,       \* self._in_memory_sessions: session id -> [title, messages, max_messages]
    m_db,             \* the chat_messages rows of the database, per session id
    m_added,          \* every message add_message was given, per session id
    m_hist            \* the latest get_history call: its session id and result

rvars == <<mapping_file, ISIN_MAPPING, MAPPING_LOADED, r_pc, r_isin, r_hint, r_ret, r_calls>>
svars == <<s_in, s_out>>
fvars == <<f_pc, f_ticker, f_fallback, f_symbol, f_trace, f_ret, f_scan>>
evars == <<e_pc, e_input, e_data, e_i, e_total_investment, e_total_current_value, e_fetch,
          e_log>>
pvars == <<p_pc, p_llm, p_portfolio, p_i, p_res, p_ret>>
mvars == <<m_max, m_use_db, m_sessions, m_db, m_added, m_hist>>
vars == <<rvars, svars, fvars, evars, pvars, mvars>>

----------------------------------------------------------------------------
(* Bounds of the model *)

\* longest ticker hint / ticker string enumerated as an input
MaxStrLen == 4
\* resolve_ticker calls in one run
MaxCalls == 2
\* holdings in the portfolio given to enrich_portfolio
MaxHoldings == 2
\* successive applications of get_yfinance_symbol to one ticker
MaxApply == 2
\* add_message calls in one run
MaxAdds == 3
\* largest max_messages_per_session the manager is constructed with
MaxCap == 2

----------------------------------------------------------------------------
(* Python str operations on character sequences *)

\* characters the enumerated input strings are built from: whitespace, the
\* characters of the two exchange suffixes, and one lower-case letter
Alphabet == {" ", ".", "B", "N", "O", "S", "b"}

StringsUpTo(n) == UNION {[1..k -> Alphabet] : k \in 0..n}

DOT_NS == <<".", "N", "S">>
DOT_BO == <<".", "B", "O">>

LowerToUpper ==
    [c \in {"b", "n", "o", "s"} |->
        CASE c = "b" -> "B" [] c = "n" -> "N" [] c = "o" -> "O" [] c = "s" -> "S"]

\* str.upper()
str_upper(s) ==
    [i \in 1..Len(s) |-> IF s[i] \in DOMAIN LowerToUpper THEN LowerToUpper[s[i]] ELSE s[i]]

\* str.strip(): leading and trailing whitespace removed
str_strip(s) ==
    LET keep == {i \in 1..Len(s) : s[i] # " "}
    IN  IF keep = {} THEN <<>>
        ELSE LET lo == CHOOSE i \in keep : \A j \in keep : i <= j
                 hi == CHOOSE i \in keep : \A j \in keep : i >= j
             IN  SubSeq(s, lo, hi)

\* str.startswith / str.endswith
str_startswith(s, p) == Len(s) >= Len(p) /\ SubSeq(s, 1, Len(p)) = p
str_endswith(s, p) == Len(s) >= Len(p) /\ SubSeq(s, Len(s) - Len(p) + 1, Len(s)) = p

\* str.replace(old, new) for non-empty old: every non-overlapping occurrence,
\* scanning left to right
RECURSIVE str_replace(_, _, _)
str_replace(s, old, new) ==
    IF Len(s) < Len(old) THEN s
    ELSE IF str_startswith(s, old)
         THEN new \o str_replace(SubSeq(s, Len(old) + 1, Len(s)), old, new)
         ELSE <<s[1]>> \o str_replace(Tail(s), old, new)

\* Optional values
None == [some |-> FALSE, val |-> <<>>]
Str(s) == [some |-> TRUE, val |-> s]
NoIsin == [some |-> FALSE, val |-> ""]
Isin(c) == [some |-> TRUE, val |-> c]
\* Python truthiness of an Optional[str]: None and "" are falsy
TruthyIsin(o) == o.some /\ o.val # ""
TruthyStr(o) == o.some /\ Len(o.val) > 0

----------------------------------------------------------------------------
(* isin_resolver.py: the alias tables *)

\* TICKER_FIXES as (key, value) pairs
TickerFixPairs ==
    { <<<<"A", "R", "T">>, <<"A", "N", "A", "N", "D", "R", "A", "T", "H", "I">>>>,
      <<<<"B", "A", "R", "O", "D", "A">>, <<"B", "A", "N", "K", "B", "A", "R", "O", "D", "A">>>>,
      <<<<"B", "O", "B">>, <<"B", "A", "N", "K", "B", "A", "R", "O", "D", "A">>>>,
      <<<<"C", "A", "N", "B">>, <<"C", "A", "N", "B", "K">>>>,
      <<<<"J", "F", "S">>, <<"J", "I", "O", "F", "I", "N">>>>,
      <<<<"J", "I", "O", "F", "I", "N", "A", "N", "C", "E">>, <<"J", "I", "O", "F", "I", "N">>>>,
      <<<<"O", "N", "E", "9", "7">>, <<"P", "A", "Y", "T", "M">>>>,
      <<<<"L", "I", "C">>, <<"L", "I", "C", "I">>>>,
      <<<<"B", "H", "S", "L">>, <<"B", "A", "J", "A", "J", "H", "I", "N", "D">>>>,
      <<<<"B", "F", "I", "L">>, <<"B", "A", "L", "U", "F", "O", "R", "G", "E">>>>,
      <<<<"A", "Z", "E">>, <<"A", "Z", "A", "D">>>>,
      <<<<"E", "T", "N", "L">>, <<"E", "T", "E", "R", "N", "A", "L">>>>,
      <<<<"M", "O", "F", "S", "L">>, <<"M", "O", "T", "I", "L", "A", "L", "O", "F", "S">>>>,
      <<<<"N", "S", "D", "L">>, <<"N", "S", "D", "L">>>>,
      <<<<"A", "R", "A", "T", "H", "I">>, <<"A", "N", "A", "N", "D", "R", "A", "T", "H", "I">>>> }

TICKER_FIXES ==
    [k \in {p[1] : p \in TickerFixPairs} |-> (CHOOSE p \in TickerFixPairs : p[1] = k)[2]]

EtfPairs ==
    { <<"INF247L01DJ0", <<"M", "O", "D", "E", "F", "E", "N", "C", "E", ".", "N", "S">>>>,
      <<"INF247L01EV3", <<"M", "O", "C", "A", "P", "I", "T", "A", "L", ".", "N", "S">>>>,
      <<"INF204KB17I5", <<"G", "O", "L", "D", "B", "E", "E", "S", ".", "N", "S">>>>,
      <<"INF204KC1402", <<"S", "I", "L", "V", "E", "R", "B", "E", "E", "S", ".", "N", "S">>>> }

ETF_MAPPING ==
    [k \in {p[1] : p \in EtfPairs} |-> (CHOOSE p \in EtfPairs : p[1] = k)[2]]

\* Contents isin_mapping.json can have (ISIN -> root ticker).  The second one
\* also lists an ISIN of the ETF table, with a different ticker.
EmptyMapping == [k \in {} |-> <<>>]
EquityMappingA ==
    [k \in {"INE066F01020", "INE028A01039"} |->
        IF k = "INE066F01020" THEN <<"H", "A", "L">>
        ELSE <<"B", "A", "N", "K", "B", "A", "R", "O", "D", "A">>]
EquityMappingB ==
    [k \in {"INE066F01020", "INF204KB17I5"} |->
        IF k = "INE066F01020" THEN <<"H", "A", "L">>
        ELSE <<"G", "O", "L", "D">>]

\* the file is unreadable / not valid JSON, or holds one of the contents
MappingFiles ==
    { [ok |-> FALSE, content |-> EmptyMapping],
      [ok |-> TRUE, content |-> EquityMappingA],
      [ok |-> TRUE, content |-> EquityMappingB] }

\* isin arguments: None, "", an ETF ISIN that EquityMappingB lists too, an ETF
\* ISIN no equity mapping lists, an equity ISIN, and an ISIN of no table
IsinArgs ==
    {NoIsin} \cup {Isin(c) : c \in {"", "INF204KB17I5", "INF204KC1402",
                                     "INE066F01020", "INE000000000"}}

\* hints in which an exchange suffix is wrapped around another one
NestedSuffixHints ==
    { <<".", ".", "N", "S", "N", "S">>, <<".", "N", ".", "B", "O", "S">>,
      <<".", ".", "B", "O", "B", "O">>, <<"b", ".", "N", ".", "N", "S", "S">> }

\* ticker_hint arguments: None, any string over Alphabet up to MaxStrLen, and
\* the nested-suffix hints
HintArgs == {None} \cup {Str(s) : s \in StringsUpTo(MaxStrLen) \cup NestedSuffixHints}

\* hints of the calls after the first one
LaterHintArgs == {None, Str(<<"B", "O", "B">>), Str(<<"b", "O", "B", ".", "N", "S">>)}

----------------------------------------------------------------------------
(* isin_resolver.py: _load_isin_mapping and resolve_ticker *)

\* _load_isin_mapping reading the file on every call
load_isin_mapping_reload(file, mapping, loaded) ==
    IF file.ok THEN [mapping |-> file.content, loaded |-> TRUE]
    ELSE [mapping |-> EmptyMapping, loaded |-> TRUE]

\* _load_isin_mapping: the new values of the two globals.  The file is read
\* only while _MAPPING_LOADED is false; a failed read leaves the mapping empty
\* and still sets the flag.
load_isin_mapping(file, mapping, loaded) ==
    IF loaded THEN [mapping |-> mapping, loaded |-> TRUE]
    ELSE IF file.ok THEN [mapping |-> file.content, loaded |-> TRUE]
    ELSE [mapping |-> EmptyMapping, loaded |-> TRUE]

\* clean_hint = ticker_hint.strip().upper().replace(".NS", "").replace(".BO", "")
clean_hint(hint) ==
    str_replace(str_replace(str_upper(str_strip(hint)), DOT_NS, <<>>), DOT_BO, <<>>)

\* resolve_ticker with the equity mapping consulted before the ETF table
resolve_ticker_equity_first(mapping, isin, ticker_hint) ==
    IF TruthyIsin(isin) /\ isin.val \in DOMAIN mapping
    THEN Str(mapping[isin.val])
    ELSE IF TruthyIsin(isin) /\ isin.val \in DOMAIN ETF_MAPPING
    THEN Str(ETF_MAPPING[isin.val])
    ELSE IF TruthyStr(ticker_hint)
    THEN LET c == clean_hint(ticker_hint.val)
         IN  IF c \in DOMAIN TICKER_FIXES THEN Str(TICKER_FIXES[c]) ELSE Str(c)
    ELSE None

\* resolve_ticker with the hint consulted before the equity mapping
resolve_ticker_hint_first(mapping, isin, ticker_hint) ==
    IF TruthyIsin(isin) /\ isin.val \in DOMAIN ETF_MAPPING
    THEN Str(ETF_MAPPING[isin.val])
    ELSE IF TruthyStr(ticker_hint)
    THEN LET c == clean_hint(ticker_hint.val)
         IN  IF c \in DOMAIN TICKER_FIXES THEN Str(TICKER_FIXES[c]) ELSE Str(c)
    ELSE IF TruthyIsin(isin) /\ isin.val \in DOMAIN mapping
    THEN Str(mapping[isin.val])
    ELSE None

\* resolve_ticker returning None when the cleaned hint is empty
resolve_ticker_none_for_blank(mapping, isin, ticker_hint) ==
    IF TruthyIsin(isin) /\ isin.val \in DOMAIN ETF_MAPPING
    THEN Str(ETF_MAPPING[isin.val])
    ELSE IF TruthyIsin(isin) /\ isin.val \in DOMAIN mapping
    THEN Str(mapping[isin.val])
    ELSE IF TruthyStr(ticker_hint)
    THEN LET c == clean_hint(ticker_hint.val)
         IN  IF c \in DOMAIN TICKER_FIXES THEN Str(TICKER_FIXES[c])
             ELSE IF c = <<>> THEN None ELSE Str(c)
    ELSE None

\* the body of resolve_ticker after the mapping is loaded
resolve_ticker(mapping, isin, ticker_hint) ==
    IF TruthyIsin(isin) /\ isin.val \in DOMAIN ETF_MAPPING
    THEN Str(ETF_MAPPING[isin.val])
    ELSE IF TruthyIsin(isin) /\ isin.val \in DOMAIN mapping
    THEN Str(mapping[isin.val])
    ELSE IF TruthyStr(ticker_hint)
    THEN LET c == clean_hint(ticker_hint.val)
         IN  IF c \in DOMAIN TICKER_FIXES THEN Str(TICKER_FIXES[c]) ELSE Str(c)
    ELSE None

\* one call resolve_ticker(r_isin, r_hint), from entry to return
ResolveTicker ==
    /\ r_pc = "pending"
    /\ LET ld == load_isin_mapping(mapping_file, ISIN_MAPPING, MAPPING_LOADED)
       IN  /\ ISIN_MAPPING' = ld.mapping
           /\ MAPPING_LOADED' = ld.loaded
           /\ r_ret' = resolve_ticker(ld.mapping, r_isin, r_hint)
    /\ r_pc' = "returned"
    /\ UNCHANGED <<mapping_file, r_isin, r_hint, r_calls, svars, fvars, evars, pvars, mvars>>

\* the caller (the resolution loop of parse_holdings) issues the next call
NextHolding ==
    /\ r_pc = "returned"
    /\ r_calls < MaxCalls
    /\ \E i \in IsinArgs, h \in LaterHintArgs :
          /\ r_isin' = i
          /\ r_hint' = h
    /\ r_calls' = r_calls + 1
    /\ r_pc' = "pending"
    /\ UNCHANGED <<mapping_file, ISIN_MAPPING, MAPPING_LOADED, r_ret, svars, fvars, evars, pvars, mvars>>

\* isin_mapping.json is rewritten out of band while the process runs
ReplaceMappingFile ==
    /\ r_pc = "returned"
    /\ \E f \in MappingFiles : f # mapping_file /\ mapping_file' = f
    /\ UNCHANGED <<ISIN_MAPPING, MAPPING_LOADED, r_pc, r_isin, r_hint, r_ret, r_calls, svars, fvars, evars, pvars, mvars>>

SymbolIdle == s_in = <<>> /\ s_out = <<>>

NoPortfolio == [holdings |-> <<>>]

ParseIdle ==
    /\ p_pc = "idle"
    /\ p_llm = [ok |-> FALSE, portfolio |-> NoPortfolio]
    /\ p_portfolio = NoPortfolio
    /\ p_i = 0
    /\ p_res = <<>>
    /\ p_ret = [some |-> FALSE, val |-> NoPortfolio]

NoSessions == [s \in {} |-> <<>>]

MemoryIdle ==
    /\ m_max = 0
    /\ m_use_db = FALSE
    /\ m_sessions = NoSessions
    /\ m_db = NoSessions
    /\ m_added = NoSessions
    /\ m_hist = [sid |-> "none", at |-> 0, msgs |-> <<>>]

EnrichIdle ==
    /\ e_pc = "idle"
    /\ e_input = [holdings |-> <<>>]
    /\ e_data = [holdings |-> <<>>]
    /\ e_i = 0
    /\ e_total_investment = 0
    /\ e_total_current_value = 0
    /\ e_fetch = <<>>
    /\ e_log = <<>>

FetchIdle ==
    /\ f_pc = "idle"
    /\ f_ticker = <<>>
    /\ f_fallback = 0
    /\ f_symbol = <<>>
    /\ f_trace = <<>>
    /\ f_ret = [price |-> 0, ok |-> FALSE]
    /\ f_scan = <<>>

InitResolve ==
    /\ mapping_file \in MappingFiles
    /\ ISIN_MAPPING = EmptyMapping
    /\ MAPPING_LOADED = FALSE
    /\ r_pc = "pending"
    /\ r_isin \in IsinArgs
    /\ r_hint \in HintArgs
    /\ r_ret = None
    /\ r_calls = 1
    /\ SymbolIdle
    /\ FetchIdle
    /\ EnrichIdle
    /\ ParseIdle
    /\ MemoryIdle

NextResolve == ResolveTicker \/ NextHolding \/ ReplaceMappingFile

SpecResolve == InitResolve /\ [][NextResolve]_vars

----------------------------------------------------------------------------
(* isin_resolver.py: get_yfinance_symbol *)

\* get_yfinance_symbol without the check for a suffix already present
get_yfinance_symbol_always_append(ticker) ==
    IF Len(ticker) = 0 THEN <<>> ELSE ticker \o DOT_NS

\* get_yfinance_symbol recognising only the .NS suffix
get_yfinance_symbol_ns_only(ticker) ==
    IF Len(ticker) = 0 THEN <<>>
    ELSE IF str_endswith(ticker, DOT_NS) THEN ticker
    ELSE ticker \o DOT_NS

get_yfinance_symbol(ticker) ==
    IF Len(ticker) = 0 THEN <<>>
    ELSE IF str_endswith(ticker, DOT_NS) \/ str_endswith(ticker, DOT_BO) THEN ticker
    ELSE ticker \o DOT_NS

\* tickers given to get_yfinance_symbol: every string over Alphabet up to
\* MaxStrLen, and the full symbols of the ETF table
SymbolArgs == StringsUpTo(MaxStrLen) \cup {ETF_MAPPING[k] : k \in DOMAIN ETF_MAPPING}

\* get_yfinance_symbol applied to s_in, then to its own result
FormatSymbol ==
    /\ Len(s_out) < MaxApply
    /\ s_out' = Append(s_out, get_yfinance_symbol(IF s_out = <<>> THEN s_in ELSE s_out[Len(s_out)]))
    /\ UNCHANGED <<s_in, rvars, fvars, evars, pvars, mvars>>

ResolveIdle ==
    /\ mapping_file = [ok |-> FALSE, content |-> EmptyMapping]
    /\ ISIN_MAPPING = EmptyMapping
    /\ MAPPING_LOADED = FALSE
    /\ r_pc = "returned"
    /\ r_isin = NoIsin
    /\ r_hint = None
    /\ r_ret = None
    /\ r_calls = 0

InitSymbol ==
    /\ s_in \in SymbolArgs
    /\ s_out = <<>>
    /\ ResolveIdle
    /\ FetchIdle
    /\ EnrichIdle
    /\ ParseIdle
    /\ MemoryIdle

NextSymbol == FormatSymbol

SpecSymbol == InitSymbol /\ [][NextSymbol]_vars

----------------------------------------------------------------------------
(* enrich_portfolio.py: get_latest_price *)

\* round(x, 2) on mills: the nearest multiple of 10 mills; an exact decimal tie
\* depends on the binary float nearest to it and is resolved here to the even
\* cent (the enumerated prices hold no tie)
Round2(x) ==
    LET q == x \div 10
        r == x % 10
    IN  IF r < 5 THEN q * 10
        ELSE IF r > 5 THEN (q + 1) * 10
        ELSE IF q % 2 = 0 THEN q * 10 ELSE (q + 1) * 10

\* Python objects a price field can hold: None (also a missing key), a
\* non-empty string (non-numeric), or a number in mills
PyNone == [t |-> "none", n |-> 0]
NonNum == [t |-> "str", n |-> 0]
Num(n) == [t |-> "num", n |-> n]
PriceNums == {-1000, 0, 4, 12346}
PriceValues == {PyNone, NonNum} \cup {Num(n) : n \in PriceNums}

\* bool(v)
PyTruthy(v) == v.t = "str" \/ (v.t = "num" /\ v.n # 0)

\* exceptions the provider library raises (all subclasses of Exception);
\* TypeError is also what `price > 0` raises for a non-numeric price
ErrKinds == {"ConnectionError", "KeyError", "TypeError"}

\* outcome of one source block
Price(p) == [kind |-> "price", price |-> p, exc |-> "none"]
NoData == [kind |-> "nodata", price |-> 0, exc |-> "none"]
NoPositive == [kind |-> "nopos", price |-> 0, exc |-> "none"]
Raised(e) == [kind |-> "raised", price |-> 0, exc |-> e]

\* for ... in [...]: price = ...; if price and price > 0: return ...
\* over the candidate values in priority order
RECURSIVE ScanPrices(_)
ScanPrices(vals) ==
    IF vals = <<>> THEN NoPositive
    ELSE LET v == Head(vals)
         IN  IF ~PyTruthy(v) THEN ScanPrices(Tail(vals))
             ELSE IF v.t = "str" THEN Raised("TypeError")
             ELSE IF v.n > 0 THEN Price(v.n)
             ELSE ScanPrices(Tail(vals))

\* stock.info: the property raises, is falsy (None or {}), or is a dict
InfoResponses ==
    {[kind |-> "raise", exc |-> e, regularMarketPrice |-> PyNone,
      currentPrice |-> PyNone, previousClose |-> PyNone] : e \in ErrKinds}
    \cup {[kind |-> "falsy", exc |-> "none", regularMarketPrice |-> PyNone,
           currentPrice |-> PyNone, previousClose |-> PyNone]}
    \cup [kind : {"dict"}, exc : {"none"}, regularMarketPrice : PriceValues,
          currentPrice : PriceValues, previousClose : PriceValues]

\* the live quote scanned from previousClose up to regularMarketPrice
InfoOutcome_close_first(info) ==
    IF info.kind = "raise" THEN Raised(info.exc)
    ELSE IF info.kind = "falsy" THEN NoData
    ELSE ScanPrices(<<info.previousClose, info.currentPrice, info.regularMarketPrice>>)

\* for field in ['regularMarketPrice', 'currentPrice', 'previousClose']:
\*     price = info.get(field)
InfoFields == <<"regularMarketPrice", "currentPrice", "previousClose">>
InfoOutcome(info) ==
    IF info.kind = "raise" THEN Raised(info.exc)
    ELSE IF info.kind = "falsy" THEN NoData
    ELSE ScanPrices(<<info.regularMarketPrice, info.currentPrice, info.previousClose>>)

\* stock.fast_info: attrs are the results of getattr(fast, attr, None), items
\* those of fast.get(attr), for lastPrice, previousClose, regularMarketPrice
FastAttrValues == {PyNone, Num(12346)}
FastResponses ==
    {[kind |-> "raise", exc |-> e, attrs |-> <<PyNone, PyNone, PyNone>>,
      items |-> <<PyNone, PyNone, PyNone>>] : e \in ErrKinds}
    \cup {[kind |-> "falsy", exc |-> "none", attrs |-> <<PyNone, PyNone, PyNone>>,
           items |-> <<PyNone, PyNone, PyNone>>]}
    \cup [kind : {"obj"}, exc : {"none"}, attrs : [1..3 -> FastAttrValues],
          items : [1..3 -> PriceValues]]

\* getattr(fast, attr, None) or fast.get(attr)
FastValue(fast, i) == IF PyTruthy(fast.attrs[i]) THEN fast.attrs[i] ELSE fast.items[i]

\* for attr in ['lastPrice', 'previousClose', 'regularMarketPrice']
FastFields == <<"lastPrice", "previousClose", "regularMarketPrice">>
FastOutcome(fast) ==
    IF fast.kind = "raise" THEN Raised(fast.exc)
    ELSE IF fast.kind = "falsy" THEN NoData
    ELSE ScanPrices(<<FastValue(fast, 1), FastValue(fast, 2), FastValue(fast, 3)>>)

\* stock.history(period="5d"): raises, is empty, lacks the Close column, or
\* has rows whose last Close is close
HistResponses ==
    {[kind |-> "raise", exc |-> e, close |-> PyNone] : e \in ErrKinds}
    \cup {[kind |-> k, exc |-> "none", close |-> PyNone] : k \in {"empty", "nocol"}}
    \cup [kind : {"rows"}, exc : {"none"}, close : PriceValues]

HistOutcome(hist) ==
    IF hist.kind = "raise" THEN Raised(hist.exc)
    ELSE IF hist.kind \in {"empty", "nocol"} THEN NoData
    ELSE ScanPrices(<<hist.close>>)

\* the fields a query examined, in order, with the value each one held (none
\* when the provider raised or answered nothing)
Scanned(field, val) == [field |-> field, val |-> val]
InfoScan(info) ==
    IF info.kind # "dict" THEN <<>>
    ELSE <<Scanned(InfoFields[1], info.regularMarketPrice),
           Scanned(InfoFields[2], info.currentPrice),
           Scanned(InfoFields[3], info.previousClose)>>
FastScan(fast) ==
    IF fast.kind \in {"raise", "falsy"} THEN <<>>
    ELSE [i \in 1..3 |-> Scanned(FastFields[i], FastValue(fast, i))]
HistScan(hist) ==
    IF hist.kind # "rows" THEN <<>> ELSE <<Scanned("Close", hist.close)>>

\* handlers that catch one exception class only
InnerExcept_narrow(e) == e = "ConnectionError"
OuterExcept_narrow(e) == e = "ConnectionError"

\* except Exception: (the handler around each source, and the outer one)
InnerExcept(e) == e \in ErrKinds
OuterExcept(e) == e \in ErrKinds

\* return (round(float(price), 2), True)
AcceptPrice(p) == [price |-> Round2(p), ok |-> TRUE]
\* a failed fetch that returns the price 0.0 instead of the fallback
FallbackReturn_zero(fallback) == [price |-> 0, ok |-> FALSE]

\* return (fallback_price, False)
FallbackReturn(fallback) == [price |-> fallback, ok |-> FALSE]
NoReturn == [price |-> 0, ok |-> FALSE]

\* the retry made on the symbol as it is
bse_symbol_unchanged(symbol) == symbol

\* bse_symbol = symbol.replace(".NS", ".BO")
bse_symbol(symbol) == str_replace(symbol, DOT_NS, DOT_BO)

\* a source block that records a positive price without returning
SourceStep_no_return(out, fallback, next) ==
    IF out.kind = "raised" /\ ~InnerExcept(out.exc)
    THEN IF OuterExcept(out.exc)
         THEN [pc |-> "done", ret |-> FallbackReturn(fallback)]
         ELSE [pc |-> "raised", ret |-> NoReturn]
    ELSE IF next = "return"
    THEN [pc |-> "done",
          ret |-> IF out.kind = "price" THEN AcceptPrice(out.price)
                  ELSE FallbackReturn(fallback)]
    ELSE [pc |-> next, ret |-> NoReturn]

\* where control goes after a source block with outcome out: a positive price
\* returns; an exception is swallowed by the block's handler, else by the outer
\* handler (which returns the fallback), else it leaves the function; otherwise
\* the code after the block (next, "return" for the final return) runs
SourceStep(out, fallback, next) ==
    IF out.kind = "price" THEN [pc |-> "done", ret |-> AcceptPrice(out.price)]
    ELSE IF out.kind = "raised" /\ ~InnerExcept(out.exc)
    THEN IF OuterExcept(out.exc)
         THEN [pc |-> "done", ret |-> FallbackReturn(fallback)]
         ELSE [pc |-> "raised", ret |-> NoReturn]
    ELSE IF next = "return"
    THEN [pc |-> "done", ret |-> FallbackReturn(fallback)]
    ELSE [pc |-> next, ret |-> NoReturn]

\* the code after the history block: if symbol.endswith(".NS") ...
AfterHistory(symbol) == IF str_endswith(symbol, DOT_NS) THEN "bse" ELSE "return"

UNKNOWN == <<"U", "N", "K", "N", "O", "W", "N">>

Query(src, sym, out) == [src |-> src, sym |-> sym, out |-> out]

\* lines 20-24: the guard on the ticker and the symbol
GLP_Enter ==
    /\ f_pc = "start"
    /\ IF Len(f_ticker) = 0 \/ f_ticker = UNKNOWN
       THEN /\ f_pc' = "done"
            /\ f_ret' = FallbackReturn(f_fallback)
            /\ UNCHANGED f_symbol
       ELSE /\ f_pc' = "ticker"
            /\ f_symbol' = get_yfinance_symbol(f_ticker)
            /\ UNCHANGED f_ret
    /\ UNCHANGED <<f_ticker, f_fallback, f_trace, f_scan, rvars, svars, evars, pvars, mvars>>

\* line 27: stock = yf.Ticker(symbol), inside the outer try only
GLP_Ticker ==
    /\ f_pc = "ticker"
    /\ \E r \in {"ok"} \cup ErrKinds :
          IF r = "ok" THEN f_pc' = "info" /\ UNCHANGED f_ret
          ELSE IF OuterExcept(r)
          THEN f_pc' = "done" /\ f_ret' = FallbackReturn(f_fallback)
          ELSE f_pc' = "raised" /\ UNCHANGED f_ret
    /\ UNCHANGED <<f_ticker, f_fallback, f_symbol, f_trace, f_scan, rvars, svars, evars, pvars, mvars>>

\* lines 28-36: the live quote
GLP_Info ==
    /\ f_pc = "info"
    /\ \E info \in InfoResponses :
          LET out == InfoOutcome(info)
              step == SourceStep(out, f_fallback, "fast")
          IN  /\ f_trace' = Append(f_trace, Query("info", f_symbol, out))
              /\ f_scan' = InfoScan(info)
              /\ f_pc' = step.pc
              /\ f_ret' = step.ret
    /\ UNCHANGED <<f_ticker, f_fallback, f_symbol, rvars, svars, evars, pvars, mvars>>

\* lines 38-46: the lighter quote endpoint
GLP_FastInfo ==
    /\ f_pc = "fast"
    /\ \E fast \in FastResponses :
          LET out == FastOutcome(fast)
              step == SourceStep(out, f_fallback, "hist")
          IN  /\ f_trace' = Append(f_trace, Query("fast_info", f_symbol, out))
              /\ f_scan' = FastScan(fast)
              /\ f_pc' = step.pc
              /\ f_ret' = step.ret
    /\ UNCHANGED <<f_ticker, f_fallback, f_symbol, rvars, svars, evars, pvars, mvars>>

\* lines 48-57: the recent daily close, then the test of the symbol's suffix
GLP_History ==
    /\ f_pc = "hist"
    /\ \E hist \in HistResponses :
          LET out == HistOutcome(hist)
              step == SourceStep(out, f_fallback, AfterHistory(f_symbol))
          IN  /\ f_trace' = Append(f_trace, Query("history", f_symbol, out))
              /\ f_scan' = HistScan(hist)
              /\ f_pc' = step.pc
              /\ f_ret' = step.ret
    /\ UNCHANGED <<f_ticker, f_fallback, f_symbol, rvars, svars, evars, pvars, mvars>>

\* lines 58-72: yf.Ticker(bse_symbol).history(period="5d"), then the final return
GLP_Bse ==
    /\ f_pc = "bse"
    /\ \E hist \in HistResponses :
          LET out == HistOutcome(hist)
              step == SourceStep(out, f_fallback, "return")
          IN  /\ f_trace' = Append(f_trace, Query("history", bse_symbol(f_symbol), out))
              /\ f_scan' = HistScan(hist)
              /\ f_pc' = step.pc
              /\ f_ret' = step.ret
    /\ UNCHANGED <<f_ticker, f_fallback, f_symbol, rvars, svars, evars, pvars, mvars>>

\* tickers and fallback prices (mills) get_latest_price is called with
FetchTickers ==
    { <<>>, UNKNOWN, <<"B">>, <<"B", ".", "N", "S">>, <<"B", ".", "B", "O">>,
      <<"A", ".", "N", "S", "B">> }
FallbackPrices == {0, 10004, 100000}

\* the caller (enrich_portfolio, per holding) calls get_latest_price again
GLP_Call ==
    /\ f_pc = "done"
    /\ \E tk \in FetchTickers, fb \in FallbackPrices :
          /\ f_ticker' = tk
          /\ f_fallback' = fb
    /\ f_pc' = "start"
    /\ f_symbol' = <<>>
    /\ f_trace' = <<>>
    /\ f_ret' = NoReturn
    /\ f_scan' = <<>>
    /\ UNCHANGED <<rvars, svars, evars, pvars, mvars>>

InitFetch ==
    /\ f_pc = "start"
    /\ f_ticker \in FetchTickers
    /\ f_fallback \in FallbackPrices
    /\ f_symbol = <<>>
    /\ f_trace = <<>>
    /\ f_ret = NoReturn
    /\ f_scan = <<>>
    /\ ResolveIdle
    /\ SymbolIdle
    /\ EnrichIdle
    /\ ParseIdle
    /\ MemoryIdle

NextFetch == GLP_Enter \/ GLP_Ticker \/ GLP_Info \/ GLP_FastInfo \/ GLP_History \/ GLP_Bse \/ GLP_Call

SpecFetch == InitFetch /\ [][NextFetch]_vars

----------------------------------------------------------------------------
(* enrich_portfolio.py: get_latest_price as one call, and enrich_portfolio *)

\* everything the provider answers during one get_latest_price call: creating
\* the handle, stock.info, stock.fast_info, stock.history and the history of
\* the .BO handle
InfoDict(a, b, c) ==
    [kind |-> "dict", exc |-> "none", regularMarketPrice |-> a,
     currentPrice |-> b, previousClose |-> c]
InfoFalsy == [InfoDict(PyNone, PyNone, PyNone) EXCEPT !.kind = "falsy"]
FastFalsy ==
    [kind |-> "falsy", exc |-> "none", attrs |-> <<PyNone, PyNone, PyNone>>,
     items |-> <<PyNone, PyNone, PyNone>>]
FastItems(a, b, c) ==
    [kind |-> "obj", exc |-> "none", attrs |-> <<PyNone, PyNone, PyNone>>,
     items |-> <<a, b, c>>]
HistEmpty == [kind |-> "empty", exc |-> "none", close |-> PyNone]
HistRaises(e) == [kind |-> "raise", exc |-> e, close |-> PyNone]
HistRows(v) == [kind |-> "rows", exc |-> "none", close |-> v]

Env(handle, info, fast, hist, bse) ==
    [handle |-> handle, info |-> info, fast |-> fast, hist |-> hist, bse |-> bse]

\* total outage; the handle cannot be created; the live quote answers 12.346;
\* the live quote answers 0.004; the live quote is non-numeric and the lighter
\* quote answers 2.5; only the .BO daily close answers
FetchEnvs ==
    { Env("ok", InfoFalsy, FastFalsy, HistEmpty, HistEmpty),
      Env("KeyError", InfoFalsy, FastFalsy, HistEmpty, HistEmpty),
      Env("ok", InfoDict(Num(12346), PyNone, PyNone), FastFalsy, HistEmpty, HistEmpty),
      Env("ok", InfoDict(Num(4), PyNone, PyNone), FastFalsy, HistEmpty, HistEmpty),
      Env("ok", InfoDict(NonNum, Num(12346), PyNone), FastItems(Num(2500), PyNone, PyNone),
          HistEmpty, HistEmpty),
      Env("ok", InfoFalsy, FastFalsy, HistRaises("ConnectionError"), HistRows(Num(12346))) }

\* get_latest_price(ticker, fallback_price) against env: [pc, ret, queried]
\* with pc "done" (ret returned) or "raised" (an exception left the function)
\* and queried the sources asked, in order
get_latest_price(ticker, fallback, env) ==
    IF Len(ticker) = 0 \/ ticker = UNKNOWN
    THEN [pc |-> "done", ret |-> FallbackReturn(fallback), queried |-> <<>>]
    ELSE LET symbol == get_yfinance_symbol(ticker)
             s1 == SourceStep(InfoOutcome(env.info), fallback, "fast")
             s2 == SourceStep(FastOutcome(env.fast), fallback, "hist")
             s3 == SourceStep(HistOutcome(env.hist), fallback, AfterHistory(symbol))
             s4 == SourceStep(HistOutcome(env.bse), fallback, "return")
             q1 == <<"info">>
             q2 == Append(q1, "fast_info")
             q3 == Append(q2, "history")
             q4 == Append(q3, "history_bse")
             Result(s, q) == [pc |-> s.pc, ret |-> s.ret, queried |-> q]
         IN  IF env.handle # "ok"
             THEN IF OuterExcept(env.handle)
                  THEN [pc |-> "done", ret |-> FallbackReturn(fallback), queried |-> <<>>]
                  ELSE [pc |-> "raised", ret |-> NoReturn, queried |-> <<>>]
             ELSE IF s1.pc # "fast" THEN Result(s1, q1)
             ELSE IF s2.pc # "hist" THEN Result(s2, q2)
             ELSE IF s3.pc # "bse" THEN Result(s3, q3)
             ELSE Result(s4, q4)

\* dict.get(key, default)
DictGet(d, key, default) == IF key \in DOMAIN d THEN d[key] ELSE default

\* d[key] = value for each key of the record w
DictUpdate(d, w) == [k \in DOMAIN d \cup DOMAIN w |-> IF k \in DOMAIN w THEN w[k] ELSE d[k]]

\* the nearest integer to n / d (d > 0), as round() of a float quotient
RoundRatio(n, d) ==
    LET q == n \div d
        r == n % d
    IN  IF 2 * r < d THEN q
        ELSE IF 2 * r > d THEN q + 1
        ELSE IF q % 2 = 0 THEN q ELSE q + 1

\* quantity = float(item.get('quantity', 0)), in whole units
item_quantity(item) == DictGet(item, "quantity", 0)

\* avg_buy_price read from the primary field only
item_avg_buy_price_primary_only(item) == DictGet(item, "avg_buy_price", 0)

\* avg_buy_price = float(item.get('avg_buy_price', 0) or item.get('buy_price', 0))
item_avg_buy_price(item) ==
    IF DictGet(item, "avg_buy_price", 0) # 0
    THEN DictGet(item, "avg_buy_price", 0)
    ELSE DictGet(item, "buy_price", 0)

\* invested_value taken as supplied, never derived
item_invested_value_as_given(item) == DictGet(item, "invested_value", 0)

\* invested_value = float(item.get('invested_value', 0));
\* if invested_value == 0: invested_value = quantity * avg_buy_price
item_invested_value(item) ==
    IF DictGet(item, "invested_value", 0) = 0
    THEN item_quantity(item) * item_avg_buy_price(item)
    ELSE DictGet(item, "invested_value", 0)

\* the percentage without the guard on a non-positive denominator reads the
\* quotient by a denominator of 1
pnl_percentage_unguarded(price, avg) ==
    RoundRatio((price - avg) * 10000, IF avg > 0 THEN avg ELSE 1)

\* round(((current_price - avg_buy_price) / avg_buy_price * 100)
\*       if avg_buy_price > 0 else 0.0, 2), in hundredths of a percent
pnl_percentage(price, avg) ==
    IF avg > 0 THEN RoundRatio((price - avg) * 10000, avg) ELSE 0

\* the five fields written on the holding, and the coalesced average buy
\* price written back as avg_buy_price
enrich_item_stores_avg(item, ret) ==
    LET quantity == item_quantity(item)
        avg_buy_price == item_avg_buy_price(item)
        invested_value == item_invested_value(item)
        current_price == ret.price
        current_value == quantity * current_price
    IN  DictUpdate(item,
            [avg_buy_price |-> avg_buy_price,
             current_price |-> Round2(current_price),
             current_value |-> Round2(current_value),
             invested_value |-> Round2(invested_value),
             pnl_absolute |-> Round2(current_value - invested_value),
             pnl_percentage |-> pnl_percentage(current_price, avg_buy_price)])

\* lines 108-117: the five fields written on the holding, given what
\* get_latest_price returned
enrich_item(item, ret) ==
    LET quantity == item_quantity(item)
        avg_buy_price == item_avg_buy_price(item)
        invested_value == item_invested_value(item)
        current_price == ret.price
        current_value == quantity * current_price
    IN  DictUpdate(item,
            [current_price |-> Round2(current_price),
             current_value |-> Round2(current_value),
             invested_value |-> Round2(invested_value),
             pnl_absolute |-> Round2(current_value - invested_value),
             pnl_percentage |-> pnl_percentage(current_price, avg_buy_price)])

\* lines 129-135: the four totals written on the portfolio
enrich_totals(data, total_investment, total_current_value) ==
    DictUpdate(data,
        [total_investment |-> Round2(total_investment),
         total_current_value |-> Round2(total_current_value),
         total_pnl |-> Round2(total_current_value - total_investment),
         total_pnl_percentage |->
            IF total_investment > 0
            THEN RoundRatio((total_current_value - total_investment) * 10000, total_investment)
            ELSE 0])

\* what one iteration does, in program order, for holding i: the source
\* queries with the pacing delay put before the field writes
holding_events_delay_before_write(i, queried) ==
    [k \in 1..Len(queried) |-> [ev |-> "query", i |-> i, src |-> queried[k]]]
        \o <<[ev |-> "sleep", i |-> i, src |-> "none"],
             [ev |-> "write", i |-> i, src |-> "none"]>>

\* what one iteration does, in program order, for holding i: the source
\* queries of get_latest_price (line 107), the writes of the derived fields
\* (lines 113-117), time.sleep(0.5) (line 127)
holding_events(i, queried) ==
    [k \in 1..Len(queried) |-> [ev |-> "query", i |-> i, src |-> queried[k]]]
        \o <<[ev |-> "write", i |-> i, src |-> "none"],
             [ev |-> "sleep", i |-> i, src |-> "none"]>>

\* one iteration of the for loop (lines 98-127): the holding's fields are read,
\* get_latest_price is called with avg_buy_price as fallback, the derived
\* fields are written on the holding in place, the loop pauses
EP_Holding ==
    /\ e_pc = "loop"
    /\ e_i <= Len(e_data.holdings)
    /\ \E env \in FetchEnvs :
          LET item == e_data.holdings[e_i]
              got == get_latest_price(DictGet(item, "ticker_symbol", <<>>),
                                      item_avg_buy_price(item), env)
          IN  IF got.pc = "raised"
              THEN /\ e_pc' = "raised"
                   /\ e_total_investment' = e_total_investment + item_invested_value(item)
                   /\ e_log' = e_log \o [k \in 1..Len(got.queried) |->
                                            [ev |-> "query", i |-> e_i, src |-> got.queried[k]]]
                   /\ UNCHANGED <<e_data, e_i, e_total_current_value, e_fetch>>
              ELSE /\ e_data' = [e_data EXCEPT !.holdings[e_i] = enrich_item(item, got.ret)]
                   /\ e_total_investment' = e_total_investment + item_invested_value(item)
                   /\ e_total_current_value' =
                         e_total_current_value + item_quantity(item) * got.ret.price
                   /\ e_fetch' = Append(e_fetch, got.ret)
                   /\ e_log' = e_log \o holding_events(e_i, got.queried)
                   /\ e_i' = e_i + 1
                   /\ UNCHANGED e_pc
    /\ UNCHANGED <<e_input, rvars, svars, fvars, pvars, mvars>>

\* after the loop (lines 129-139): the totals are written and data is returned
EP_Totals ==
    /\ e_pc = "loop"
    /\ e_i > Len(e_data.holdings)
    /\ e_data' = enrich_totals(e_data, e_total_investment, e_total_current_value)
    /\ e_log' = Append(e_log, [ev |-> "totals", i |-> 0, src |-> "none"])
    /\ e_pc' = "done"
    /\ UNCHANGED <<e_input, e_i, e_total_investment, e_total_current_value, e_fetch,
                   rvars, svars, fvars, pvars, mvars>>

\* holdings enrich_portfolio is given (prices in mills, quantity in units; the
\* amounts are small enough for the percentages to stay within 32 bits):
\* a sub-cent average price and no invested_value; a record as the statement
\* extraction dumps it, unresolved, with its own invested_value; the average
\* price under the alternate key; an ETF symbol with invested_value 0; a
\* supplied sub-cent invested_value; a holding with no numeric field at all;
\* an average price below half a cent; an empty ticker
HoldingInputs ==
    { [stock_name |-> "A", ticker_symbol |-> <<"B">>, quantity |-> 4,
       avg_buy_price |-> 10004],
      [stock_name |-> "HINDUSTAN AERONAUTICS LIMITED", isin |-> "INE066F01020",
       ticker_symbol |-> UNKNOWN, sector |-> "Engineering", quantity |-> 3,
       avg_buy_price |-> 3741, invested_value |-> 11130, current_price |-> 0,
       current_value |-> 0, pnl_absolute |-> 0, pnl_percentage |-> 0],
      [stock_name |-> "C", ticker_symbol |-> <<"B">>, quantity |-> 1,
       avg_buy_price |-> 0, buy_price |-> 5000, invested_value |-> 0],
      [stock_name |-> "D", isin |-> "INF204KB17I5",
       ticker_symbol |-> ETF_MAPPING["INF204KB17I5"], quantity |-> 3,
       avg_buy_price |-> 3741, invested_value |-> 0],
      [stock_name |-> "E", ticker_symbol |-> <<"B">>, quantity |-> 1,
       avg_buy_price |-> 10004, invested_value |-> 5006],
      [stock_name |-> "F", ticker_symbol |-> <<"B">>],
      [stock_name |-> "G", ticker_symbol |-> <<"B">>, quantity |-> 1,
       avg_buy_price |-> 4],
      [stock_name |-> "H", ticker_symbol |-> <<>>, quantity |-> 1,
       avg_buy_price |-> 10004] }

PortfolioInputs ==
    {[holdings |-> hs] : hs \in UNION {[1..n -> HoldingInputs] : n \in 0..MaxHoldings}}

InitEnrich ==
    /\ e_pc = "loop"
    /\ e_input \in PortfolioInputs
    /\ e_data = e_input
    /\ e_i = 1
    /\ e_total_investment = 0
    /\ e_total_current_value = 0
    /\ e_fetch = <<>>
    /\ e_log = <<>>
    /\ ResolveIdle
    /\ SymbolIdle
    /\ FetchIdle
    /\ ParseIdle
    /\ MemoryIdle

NextEnrich == EP_Holding \/ EP_Totals

SpecEnrich == InitEnrich /\ [][NextEnrich]_vars

----------------------------------------------------------------------------
(* parse_holdings.py: parse_holdings *)

\* a Holding as result.model_dump() gives it: every field of the pydantic
\* model is present, the derived ones at their default unless the statement
\* carried them
Extracted(name, isin, hint) ==
    [stock_name |-> name, isin |-> isin, quantity |-> 1, avg_buy_price |-> 10004,
     ticker_symbol |-> hint, sector |-> "", invested_value |-> 0, current_price |-> 0,
     current_value |-> 0, pnl_absolute |-> 0, pnl_percentage |-> 0]

\* extracted holdings: an equity ISIN, an ETF ISIN, no ISIN with a hint, an
\* ISIN of no table with a hint that is only a suffix, neither ISIN nor hint,
\* a blank hint
ExtractedHoldings ==
    { Extracted("P1", "INE066F01020", <<>>),
      Extracted("P2", "INF204KB17I5", <<>>),
      Extracted("P3", "", <<"b">>),
      Extracted("P4", "INE000000000", <<".", "N", "S">>),
      Extracted("P5", "", <<>>),
      Extracted("P6", "", <<" ">>) }

ExtractedPortfolios ==
    {[holdings |-> hs] : hs \in UNION {[1..n -> ExtractedHoldings] : n \in 0..MaxHoldings}}

\* structured_llm.invoke(...) raises, or answers a Portfolio
LlmAnswers ==
    {[ok |-> FALSE, portfolio |-> NoPortfolio]}
    \cup {[ok |-> TRUE, portfolio |-> pf] : pf \in ExtractedPortfolios}

NoResult == [some |-> FALSE, val |-> NoPortfolio]

\* the ticker written on the hint when the resolver answers nothing
tag_ticker_keep_hint(resolved, ticker_hint) ==
    IF TruthyStr(resolved) THEN resolved.val ELSE ticker_hint

\* lines 96-101: the ticker written on the holding
tag_ticker(resolved, ticker_hint) ==
    IF TruthyStr(resolved) THEN resolved.val
    ELSE IF Len(ticker_hint) > 0 THEN ticker_hint
    ELSE UNKNOWN

\* the loop over the holdings left after the first one
resolution_done_after_first(i, holdings) == i > 1 \/ Len(holdings) = 0

\* for holding in holdings: is exhausted
resolution_done(i, holdings) == i > Len(holdings)

\* lines 46-47: loader.load(), outside every try
PH_Load ==
    /\ p_pc = "start"
    /\ \E r \in {"ok"} \cup ErrKinds :
          p_pc' = (IF r = "ok" THEN "extract" ELSE "raised")
    /\ UNCHANGED <<p_llm, p_portfolio, p_i, p_res, p_ret, rvars, svars, fvars, evars, mvars>>

\* lines 80-88: the structured LLM call; any exception returns None
PH_Extract ==
    /\ p_pc = "extract"
    /\ IF p_llm.ok
       THEN /\ p_portfolio' = p_llm.portfolio
            /\ p_i' = 1
            /\ p_pc' = "resolve"
            /\ UNCHANGED p_ret
       ELSE /\ p_ret' = NoResult
            /\ p_pc' = "returned"
            /\ UNCHANGED <<p_portfolio, p_i>>
    /\ UNCHANGED <<p_llm, p_res, rvars, svars, fvars, evars, mvars>>

\* lines 90-101: one iteration of the resolution loop (resolve_ticker loads
\* the mapping on its first call)
PH_Resolve ==
    /\ p_pc = "resolve"
    /\ ~resolution_done(p_i, p_portfolio.holdings)
    /\ LET holding == p_portfolio.holdings[p_i]
           isin == DictGet(holding, "isin", "")
           ticker_hint == DictGet(holding, "ticker_symbol", <<>>)
           ld == load_isin_mapping(mapping_file, ISIN_MAPPING, MAPPING_LOADED)
           resolved == resolve_ticker(ld.mapping, Isin(isin), Str(ticker_hint))
       IN  /\ ISIN_MAPPING' = ld.mapping
           /\ MAPPING_LOADED' = ld.loaded
           /\ p_portfolio' = [p_portfolio EXCEPT !.holdings[p_i] =
                                 DictUpdate(holding,
                                     [ticker_symbol |-> tag_ticker(resolved, ticker_hint)])]
           /\ p_res' = Append(p_res, resolved)
    /\ p_i' = p_i + 1
    /\ UNCHANGED <<p_pc, p_llm, p_ret, mapping_file, r_pc, r_isin, r_hint, r_ret, r_calls,
                   svars, fvars, evars, mvars>>

\* line 103: enrich_portfolio(raw_portfolio) is entered
PH_Enrich ==
    /\ p_pc = "resolve"
    /\ resolution_done(p_i, p_portfolio.holdings)
    /\ p_pc' = "enrich"
    /\ e_pc' = "loop"
    /\ e_input' = p_portfolio
    /\ e_data' = p_portfolio
    /\ e_i' = 1
    /\ e_total_investment' = 0
    /\ e_total_current_value' = 0
    /\ e_fetch' = <<>>
    /\ e_log' = <<>>
    /\ UNCHANGED <<p_llm, p_portfolio, p_i, p_res, p_ret, rvars, svars, fvars, mvars>>

\* lines 103-104: enrich_portfolio has returned (or raised) and its result is
\* returned
PH_Return ==
    /\ p_pc = "enrich"
    /\ e_pc \in {"done", "raised"}
    /\ IF e_pc = "done"
       THEN p_ret' = [some |-> TRUE, val |-> e_data] /\ p_pc' = "returned"
       ELSE p_pc' = "raised" /\ UNCHANGED p_ret
    /\ UNCHANGED <<p_llm, p_portfolio, p_i, p_res, rvars, svars, fvars, evars, mvars>>

\* a parse_holdings call in a fresh process
InitParseCall ==
    /\ p_pc = "start"
    /\ p_llm \in LlmAnswers
    /\ p_portfolio = NoPortfolio
    /\ p_i = 0
    /\ p_res = <<>>
    /\ p_ret = NoResult
    /\ mapping_file \in MappingFiles
    /\ ISIN_MAPPING = EmptyMapping
    /\ MAPPING_LOADED = FALSE
    /\ r_pc = "returned"
    /\ r_isin = NoIsin
    /\ r_hint = None
    /\ r_ret = None
    /\ r_calls = 0
    /\ SymbolIdle
    /\ FetchIdle
    /\ EnrichIdle
    /\ MemoryIdle

\* the entry points of the pipeline: parse_holdings on a statement, or
\* enrich_portfolio called on a portfolio directly
InitParse == InitParseCall \/ InitEnrich

NextParse == PH_Load \/ PH_Extract \/ PH_Resolve \/ PH_Enrich \/ EP_Holding \/ EP_Totals \/ PH_Return

SpecParse == InitParse /\ [][NextParse]_vars

----------------------------------------------------------------------------
(* Claims about resolve_ticker (checked under SpecResolve) *)

BOB == <<"B", "O", "B">>
HAL == <<"H", "A", "L">>
GOLDBEES_NS == <<"G", "O", "L", "D", "B", "E", "E", "S", ".", "N", "S">>

\* the ISIN of the last call matched the ETF table / the loaded equity mapping
InEtfTable == TruthyIsin(r_isin) /\ r_isin.val \in DOMAIN ETF_MAPPING
InEquityTable == TruthyIsin(r_isin) /\ r_isin.val \in DOMAIN ISIN_MAPPING

\* C1: for an ISIN that is a key of the ETF/fund table, resolve_ticker returns
\* exactly the table's value (suffix included), whatever the equity mapping
\* holds for that ISIN and whatever the hint is.
C1_EtfTableWins ==
    (r_pc = "returned" /\ r_isin.some /\ r_isin.val \in DOMAIN ETF_MAPPING)
        => r_ret = Str(ETF_MAPPING[r_isin.val])

\* an ETF ISIN the loaded equity mapping lists too, called with a hint
C1_Witness ==
    /\ r_pc = "returned"
    /\ r_isin = Isin("INF204KB17I5")
    /\ "INF204KB17I5" \in DOMAIN ISIN_MAPPING
    /\ TruthyStr(r_hint)
    /\ r_ret = Str(GOLDBEES_NS)

\* C2: for an ISIN that is not in the ETF table and is a key of the equity
\* mapping, resolve_ticker returns the equity mapping's ticker, for every hint.
C2_EquityBeforeHint ==
    (r_pc = "returned" /\ r_isin.some /\ r_isin.val \notin DOMAIN ETF_MAPPING
        /\ r_isin.val \in DOMAIN ISIN_MAPPING)
        => r_ret = Str(ISIN_MAPPING[r_isin.val])

\* an equity ISIN called with a hint the correction table would rewrite
C2_Witness ==
    /\ r_pc = "returned"
    /\ r_isin = Isin("INE066F01020")
    /\ r_hint = Str(BOB)
    /\ r_ret = Str(HAL)

\* the normalisation C3 describes: trim, uppercase, strip one trailing
\* exchange suffix
strip_exchange_suffix(s) ==
    IF str_endswith(s, DOT_NS) \/ str_endswith(s, DOT_BO)
    THEN SubSeq(s, 1, Len(s) - 3)
    ELSE s
NormalizedHint(h) == strip_exchange_suffix(str_upper(str_strip(h)))

\* C3: with no ISIN match and a hint present, the result is the correction
\* table's entry for the hint trimmed, uppercased and stripped of a trailing
\* .NS/.BO suffix, or that normalized hint itself when the table has no entry.
C3_HintNormalizedBySuffix ==
    (r_pc = "returned" /\ ~InEtfTable /\ ~InEquityTable /\ TruthyStr(r_hint))
        => LET n == NormalizedHint(r_hint.val)
           IN  r_ret = Str(IF n \in DOMAIN TICKER_FIXES THEN TICKER_FIXES[n] ELSE n)

\* C4: resolve_ticker returns None exactly when the ISIN is absent or in
\* neither table and the hint is absent or empty; otherwise it returns a string.
C4_NoneIffNothingToResolve ==
    r_pc = "returned"
        => /\ (r_ret = None) <=> (~InEtfTable /\ ~InEquityTable /\ ~TruthyStr(r_hint))
           /\ (InEtfTable \/ InEquityTable \/ TruthyStr(r_hint)) => r_ret.some

\* an unknown ISIN with an empty hint string is unresolved
C4_Witness ==
    /\ r_pc = "returned"
    /\ r_isin = Isin("INE000000000")
    /\ r_hint = Str(<<>>)
    /\ r_ret = None

----------------------------------------------------------------------------
(* Claims about get_yfinance_symbol (checked under SpecSymbol) *)

\* C5: get_yfinance_symbol is idempotent: applying it again to its own result
\* gives the same result, for every ticker including the empty one.
C5_FormatIdempotent ==
    \A i \in 2..Len(s_out) : s_out[i] = s_out[1]

\* a bare root ticker formatted twice
C5_Witness ==
    /\ s_in = <<"B">>
    /\ Len(s_out) >= 2
    /\ s_out[1] = <<"B", ".", "N", "S">>
    /\ s_out[2] = s_out[1]

HasExchangeSuffix(s) == str_endswith(s, DOT_NS) \/ str_endswith(s, DOT_BO)

\* C6 as stated: a ticker ending in .NS or .BO is returned unchanged and every
\* other ticker is returned with .NS appended.
C6_SuffixOrAppend ==
    Len(s_out) >= 1
        => s_out[1] = (IF HasExchangeSuffix(s_in) THEN s_in ELSE s_in \o DOT_NS)

\* C6 amended: a ticker ending in .NS or .BO is returned unchanged, the empty
\* ticker is returned as the empty string, and every other ticker is returned
\* with .NS appended; the ETF table's symbols pass through unchanged.
C6_SuffixOrAppendNonEmpty ==
    Len(s_out) >= 1
        => /\ s_out[1] = (IF HasExchangeSuffix(s_in) \/ s_in = <<>>
                          THEN s_in ELSE s_in \o DOT_NS)
           /\ (\E k \in DOMAIN ETF_MAPPING : s_in = ETF_MAPPING[k]) => s_out[1] = s_in

\* an ETF symbol returned by the resolver has been formatted
C6_Witness ==
    /\ Len(s_out) >= 1
    /\ s_in = GOLDBEES_NS
    /\ s_out[1] = GOLDBEES_NS

----------------------------------------------------------------------------
(* Claims about get_latest_price (checked under SpecFetch) *)

B_NS == <<"B", ".", "N", "S">>
B_BO == <<"B", ".", "B", "O">>

\* the i-th query of the call gave no positive price
Failed(i) == f_trace[i].out.kind # "price"
NoSourceSucceeded == \A i \in 1..Len(f_trace) : Failed(i)

\* C7: get_latest_price always returns a (price, succeeded) pair, no exception
\* reaches the caller whatever the sources or the handle creation raise, and
\* when no source yields a positive price the result is (fallback, false).
C7_AlwaysReturnsPair ==
    /\ f_pc # "raised"
    /\ f_pc = "done"
        => /\ f_ret.ok \in BOOLEAN
           /\ f_ret.price \in Int
           /\ NoSourceSucceeded => f_ret = [price |-> f_fallback, ok |-> FALSE]

\* all four queries failed, the last by an exception, with a sub-cent fallback
C7_Witness ==
    /\ f_pc = "done"
    /\ Len(f_trace) = 4
    /\ NoSourceSucceeded
    /\ f_trace[1].out.kind = "raised"
    /\ f_trace[4].out.kind = "raised"
    /\ f_fallback = 10004
    /\ f_ret = [price |-> 10004, ok |-> FALSE]

SourceOrder == <<"info", "fast_info", "history", "history">>

\* C8: the sources are queried in the order live quote, lighter quote, recent
\* daily close (all on the symbol), then the secondary exchange; a source is
\* queried only after every earlier one failed, and none after a success.
C8_StrictOrder ==
    /\ Len(f_trace) <= 4
    /\ \A i \in 1..Len(f_trace) :
          /\ f_trace[i].src = SourceOrder[i]
          /\ i <= 3 => f_trace[i].sym = f_symbol
          /\ i = 4 => (f_trace[i].sym # f_symbol /\ str_endswith(f_trace[i].sym, DOT_BO))
          /\ \A j \in 1..(i - 1) : Failed(j)

\* the secondary exchange answered after the three primary sources failed
C8_Witness ==
    /\ f_pc = "done"
    /\ Len(f_trace) = 4
    /\ f_trace[4].out.kind = "price"
    /\ f_ret.ok

\* a source follows the i-th one in the chain of this symbol
HasNextSource(i) == i < 3 \/ (i = 3 /\ str_endswith(f_symbol, DOT_NS))

\* C9 as stated: after a source fails in any way the next source is tried, and
\* a positive price from that next source is returned as it is, with true.
C9_NextSourceExactPrice ==
    f_pc = "done"
        => \A i \in 1..Len(f_trace) :
              /\ (Failed(i) /\ HasNextSource(i)) => Len(f_trace) > i
              /\ (i > 1 /\ ~Failed(i))
                    => f_ret = [price |-> f_trace[i].out.price, ok |-> TRUE]

\* C9 amended: after a source fails in any way the next source is tried, and a
\* positive price from that next source is returned rounded to 2 decimals,
\* with true.
C9_NextSourceRoundedPrice ==
    f_pc = "done"
        => \A i \in 1..Len(f_trace) :
              /\ (Failed(i) /\ HasNextSource(i)) => Len(f_trace) > i
              /\ (i > 1 /\ ~Failed(i))
                    => f_ret = [price |-> Round2(f_trace[i].out.price), ok |-> TRUE]

\* source 1 gave no positive price and source 2 gave 12.346
C9_Witness ==
    /\ f_pc = "done"
    /\ Len(f_trace) = 2
    /\ f_trace[1].out = NoPositive
    /\ f_trace[2].out = Price(12346)
    /\ f_ret = [price |-> 12350, ok |-> TRUE]

\* the symbol with its last three characters replaced by .BO
SuffixSwapped(s) == SubSeq(s, 1, Len(s) - 3) \o DOT_BO

PrimaryAllFailed ==
    /\ f_pc = "done"
    /\ str_endswith(f_symbol, DOT_NS)
    /\ Len(f_trace) >= 3
    /\ Failed(1) /\ Failed(2) /\ Failed(3)

\* C10 as stated: for a .NS symbol whose three sources all failed, the live
\* quote, the lighter quote and the daily close are retried in that order on
\* the .BO symbol, and a positive price from any of them is returned with true.
C10_RetryAllThreeOnBse ==
    PrimaryAllFailed
        => /\ Len(f_trace) >= 4
           /\ \A i \in 4..Len(f_trace) :
                 /\ i <= 6
                 /\ f_trace[i].src = SourceOrder[i - 3]
                 /\ f_trace[i].sym = SuffixSwapped(f_symbol)
                 /\ ~Failed(i) => f_ret.ok
           /\ (Len(f_trace) < 6 => ~Failed(Len(f_trace)))

\* .NS occurs in the symbol only as its suffix
OnlySuffixNS(s) == str_replace(SubSeq(s, 1, Len(s) - 3), DOT_NS, <<>>) = SubSeq(s, 1, Len(s) - 3)

\* C10 amended: for a .NS symbol whose three sources all failed, only the
\* recent daily close is retried, once, on the symbol with every .NS replaced
\* by .BO (the suffix substitution when .NS occurs only as the suffix), and a
\* positive close from it is returned rounded to 2 decimals, with true.
C10_RetryCloseOnBse ==
    PrimaryAllFailed
        => /\ Len(f_trace) = 4
           /\ f_trace[4].src = "history"
           /\ f_trace[4].sym = str_replace(f_symbol, DOT_NS, DOT_BO)
           /\ OnlySuffixNS(f_symbol) => f_trace[4].sym = SuffixSwapped(f_symbol)
           /\ ~Failed(4) => f_ret = [price |-> Round2(f_trace[4].out.price), ok |-> TRUE]
           /\ Failed(4) => f_ret = [price |-> f_fallback, ok |-> FALSE]

\* B.NS failed on all three sources and B.BO's daily close answered
C10_Witness ==
    /\ PrimaryAllFailed
    /\ f_symbol = B_NS
    /\ Len(f_trace) = 4
    /\ f_trace[4].sym = B_BO
    /\ f_trace[4].out = Price(12346)
    /\ f_ret = [price |-> 12350, ok |-> TRUE]

\* C11: whenever get_latest_price reports success the returned price is
\* strictly positive, and a zero, negative, missing or non-numeric source value
\* never produces a success.
C11_SuccessPositive ==
    (f_pc = "done" /\ f_ret.ok)
        => /\ f_ret.price > 0
           /\ Len(f_trace) >= 1
           /\ f_trace[Len(f_trace)].out.kind = "price"
           /\ f_trace[Len(f_trace)].out.price > 0

----------------------------------------------------------------------------
(* Claims about enrich_portfolio (checked under SpecEnrich) *)

Returned == e_pc = "done"
NHoldings == Len(e_data.holdings)
\* the i-th holding as returned, and as it was given
Out(i) == e_data.holdings[i]
In(i) == e_input.holdings[i]

RECURSIVE SumSeq(_)
SumSeq(s) == IF s = <<>> THEN 0 ELSE Head(s) + SumSeq(Tail(s))

\* the average buy price of a holding: the primary field, or the alternate
\* field buy_price when the primary one is absent or zero
EffectiveAvg(h) ==
    IF "avg_buy_price" \in DOMAIN h /\ h.avg_buy_price # 0 THEN h.avg_buy_price
    ELSE IF "buy_price" \in DOMAIN h THEN h.buy_price ELSE 0
Quantity(h) == IF "quantity" \in DOMAIN h THEN h.quantity ELSE 0
StoredAvg(h) == IF "avg_buy_price" \in DOMAIN h THEN h.avg_buy_price ELSE 0
\* the invested_value the input supplies (0 when absent)
GivenInvested(h) == IF "invested_value" \in DOMAIN h THEN h.invested_value ELSE 0
\* the invested_value the engine works with
EffectiveInvested(h) ==
    IF GivenInvested(h) = 0 THEN Quantity(h) * EffectiveAvg(h) ELSE GivenInvested(h)

\* C12: after enrich_portfolio every holding's stored current_value equals
\* round(quantity * current_price, 2) computed from its stored current_price.
C12_ValueFromStoredPrice ==
    Returned => \A i \in 1..NHoldings :
        Out(i).current_value = Round2(Quantity(Out(i)) * Out(i).current_price)

\* C13: after enrich_portfolio every holding's stored pnl_absolute equals
\* round(current_value - invested_value, 2) computed from its stored fields.
C13_PnlFromStoredValues ==
    Returned => \A i \in 1..NHoldings :
        Out(i).pnl_absolute = Round2(Out(i).current_value - Out(i).invested_value)

\* C14 as stated: every holding whose avg_buy_price field is 0 has
\* pnl_percentage 0, whatever its other fields are.
C14_ZeroAvgZeroPercent ==
    Returned => \A i \in 1..NHoldings :
        StoredAvg(Out(i)) = 0 => Out(i).pnl_percentage = 0

\* C14 amended: every holding whose average buy price, taken from buy_price
\* when avg_buy_price is absent or zero, is 0 has pnl_percentage 0, whatever
\* price the fetcher returned.
C14_ZeroEffectiveAvgZeroPercent ==
    Returned => \A i \in 1..NHoldings :
        EffectiveAvg(Out(i)) = 0 => Out(i).pnl_percentage = 0

\* a holding with no buy price at all was priced by the market
C14_Witness ==
    /\ Returned
    /\ \E i \in 1..NHoldings :
          /\ EffectiveAvg(Out(i)) = 0
          /\ e_fetch[i] = [price |-> 12350, ok |-> TRUE]
          /\ Out(i).current_price = 12350
          /\ Out(i).pnl_percentage = 0

\* C15: after enrich_portfolio every holding with avg_buy_price > 0 has
\* pnl_percentage = round((current_price - avg_buy_price) / avg_buy_price * 100, 2)
\* computed from its stored current_price and avg_buy_price.
C15_PercentFromStoredFields ==
    Returned => \A i \in 1..NHoldings :
        StoredAvg(Out(i)) > 0
            => Out(i).pnl_percentage =
                  RoundRatio((Out(i).current_price - StoredAvg(Out(i))) * 10000,
                             StoredAvg(Out(i)))

\* C16: after enrich_portfolio total_investment and total_current_value equal
\* the rounded sums of the holdings' stored invested_value and current_value.
C16_TotalsFromStoredFields ==
    Returned =>
        /\ e_data.total_investment =
              Round2(SumSeq([i \in 1..NHoldings |-> Out(i).invested_value]))
        /\ e_data.total_current_value =
              Round2(SumSeq([i \in 1..NHoldings |-> Out(i).current_value]))

\* C17: after enrich_portfolio total_pnl = round(total_current_value -
\* total_investment, 2), total_pnl_percentage = round(total_pnl /
\* total_investment * 100, 2), and a portfolio whose total_investment is 0 has
\* total_pnl_percentage 0.
C17_TotalPnlFromTotals ==
    Returned =>
        /\ e_data.total_pnl = Round2(e_data.total_current_value - e_data.total_investment)
        /\ e_data.total_investment > 0
              => e_data.total_pnl_percentage =
                    RoundRatio(e_data.total_pnl * 10000, e_data.total_investment)
        /\ e_data.total_investment = 0 => e_data.total_pnl_percentage = 0

\* C18: a zero or absent invested_value is derived as quantity * avg_buy_price
\* (avg_buy_price coming from buy_price when absent or zero), a non-zero one is
\* used as given; the value is stored rounded on the holding and summed into
\* total_investment, whatever the price fetch returns.
C18_InvestedValueDerived ==
    Returned =>
        /\ \A i \in 1..NHoldings : Out(i).invested_value = Round2(EffectiveInvested(In(i)))
        /\ e_data.total_investment =
              Round2(SumSeq([i \in 1..NHoldings |-> EffectiveInvested(In(i))]))

\* a holding with invested_value 0 got 3 * 3.741 = 11.223, stored as 11.22,
\* and one with only buy_price got 1 * 5.0
C18_Witness ==
    /\ Returned
    /\ NHoldings = 2
    /\ GivenInvested(In(1)) = 0 /\ Quantity(In(1)) = 3 /\ EffectiveAvg(In(1)) = 3741
    /\ Out(1).invested_value = 11220
    /\ StoredAvg(In(2)) = 0 /\ EffectiveAvg(In(2)) = 5000
    /\ Out(2).invested_value = 5000
    /\ e_data.total_investment = 16220

DerivedFields == {"current_price", "current_value", "invested_value", "pnl_absolute", "pnl_percentage"}
TotalFields == {"total_investment", "total_current_value", "total_pnl", "total_pnl_percentage"}

\* C20: enrich_portfolio never raises, whatever the sources do; it returns the
\* input holdings in their order, each processed and carrying the five derived
\* fields, together with the four totals; a failed fetch stops nothing.
C20_AlwaysFullyPopulated ==
    /\ e_pc # "raised"
    /\ Returned =>
          /\ NHoldings = Len(e_input.holdings)
          /\ Len(e_fetch) = NHoldings
          /\ TotalFields \subseteq DOMAIN e_data
          /\ \A i \in 1..NHoldings :
                /\ DerivedFields \subseteq DOMAIN Out(i)
                /\ DOMAIN In(i) \subseteq DOMAIN Out(i)
                /\ \A k \in DOMAIN In(i) \ DerivedFields : Out(i)[k] = In(i)[k]

\* the first holding's fetch failed and the second was still priced
C20_Witness ==
    /\ Returned
    /\ NHoldings = 2
    /\ ~e_fetch[1].ok
    /\ e_fetch[2].ok
    /\ Out(2).current_price = 12350
    /\ Out(1).stock_name # Out(2).stock_name

\* C21: enrich_portfolio leaves the record it was given as it was: after the
\* call the caller's portfolio dict (the object bound to data, which is also
\* the object returned) has the holdings and top-level fields it had before.
C21_InputLeftAsGiven ==
    Returned => e_data = e_input

LogIdx == 1..Len(e_log)
PerHolding(k) == e_log[k].ev \in {"query", "write", "sleep"}

\* C23: holdings are processed strictly one at a time in input order: the
\* queries and the write of holding i come before any query of a later
\* holding, and the pacing delay of a holding comes after its write and
\* before the next holding's first query, never between two of its queries.
C23_OneHoldingAtATime ==
    /\ \A a, b \in LogIdx :
          (a < b /\ PerHolding(a) /\ PerHolding(b)) => e_log[a].i <= e_log[b].i
    /\ \A b \in LogIdx :
          e_log[b].ev = "query"
              => \A j \in 1..(e_log[b].i - 1) :
                    \E a \in 1..(b - 1) : e_log[a].ev = "write" /\ e_log[a].i = j
    /\ \A s \in LogIdx :
          e_log[s].ev = "sleep"
              => /\ \E a \in 1..(s - 1) : e_log[a].ev = "write" /\ e_log[a].i = e_log[s].i
                 /\ \A b \in LogIdx :
                       (b > s /\ e_log[b].ev \in {"query", "write"})
                           => e_log[b].i > e_log[s].i

\* the first holding went through all four sources before the second
\* holding was queried
C23_Witness ==
    /\ Returned
    /\ NHoldings = 2
    /\ Cardinality({k \in LogIdx : e_log[k].ev = "query" /\ e_log[k].i = 1}) = 4
    /\ \E k \in LogIdx : e_log[k].ev = "query" /\ e_log[k].i = 2

KeptFields == {"quantity", "avg_buy_price", "buy_price", "ticker_symbol", "isin", "stock_name", "sector"}

\* C29: at every point of enrich_portfolio the only keys added or changed on
\* a holding are the five derived fields and on the portfolio the four
\* totals; quantity, avg_buy_price, buy_price, ticker_symbol, isin, stock_name
\* and sector are as given, and none of them is added where it was absent.
C29_WritesOnlyDerived ==
    e_pc \in {"loop", "done", "raised"} =>
        /\ DOMAIN e_data \subseteq DOMAIN e_input \cup TotalFields
        /\ DOMAIN e_input \subseteq DOMAIN e_data
        /\ NHoldings = Len(e_input.holdings)
        /\ \A i \in 1..NHoldings :
              /\ DOMAIN Out(i) \ DerivedFields = DOMAIN In(i) \ DerivedFields
              /\ \A k \in KeptFields \cap DOMAIN In(i) : Out(i)[k] = In(i)[k]

\* an enriched holding that came with isin and sector, beside one whose
\* average price came from buy_price and still has avg_buy_price 0
C29_Witness ==
    /\ Returned
    /\ \E i, j \in 1..NHoldings :
          /\ In(i).stock_name = "HINDUSTAN AERONAUTICS LIMITED"
          /\ Out(i).isin = "INE066F01020" /\ Out(i).sector = "Engineering"
          /\ Out(i).current_value = 11220
          /\ "buy_price" \in DOMAIN In(j)
          /\ Out(j).avg_buy_price = 0 /\ Out(j).buy_price = 5000
          /\ Out(j).current_price = 12350

AnsweredFromHint == r_pc = "returned" /\ ~InEtfTable /\ ~InEquityTable /\ TruthyStr(r_hint)

\* C28: whenever resolve_ticker answers from the hint, the returned ticker
\* ends with neither .NS nor .BO, and get_yfinance_symbol turns it into that
\* ticker followed by one .NS.
C28_HintAnswerHasNoSuffix ==
    AnsweredFromHint
        => /\ ~str_endswith(r_ret.val, DOT_NS)
           /\ ~str_endswith(r_ret.val, DOT_BO)
           /\ get_yfinance_symbol(r_ret.val) = r_ret.val \o DOT_NS

\* C24: once a resolve_ticker call has returned, the equity mapping is loaded
\* and no later step changes it or the loaded flag, even when the file on disk
\* is replaced; a mapping left empty by a failed load stays empty and a call
\* with an ISIN that only the new file lists is answered from the hint.
C24_LoadedOnceThenFrozen ==
    /\ []((r_calls >= 1 /\ r_pc = "returned") => MAPPING_LOADED)
    /\ [][MAPPING_LOADED => (ISIN_MAPPING' = ISIN_MAPPING /\ MAPPING_LOADED')]_vars
    /\ []((r_pc = "returned" /\ MAPPING_LOADED /\ ISIN_MAPPING = EmptyMapping
           /\ ~InEtfTable /\ TruthyStr(r_hint))
              => r_ret = Str(IF clean_hint(r_hint.val) \in DOMAIN TICKER_FIXES
                             THEN TICKER_FIXES[clean_hint(r_hint.val)]
                             ELSE clean_hint(r_hint.val)))

\* the first load failed, the file was then replaced by a readable one that
\* lists the ISIN, and the second call still answered from the hint
C24_Witness ==
    /\ r_calls = 2
    /\ r_pc = "returned"
    /\ MAPPING_LOADED
    /\ ISIN_MAPPING = EmptyMapping
    /\ mapping_file.ok
    /\ r_isin = Isin("INE066F01020")
    /\ r_isin.val \in DOMAIN mapping_file.content
    /\ r_ret = Str(TICKER_FIXES[BOB])

\* the latest query, when it was a quote query that got an object to scan
LastQuery == f_trace[Len(f_trace)]
QuoteScanned == Len(f_trace) >= 1 /\ LastQuery.src \in {"info", "fast_info"} /\ f_scan # <<>>
Positive(v) == v.t = "num" /\ v.n > 0
FirstWhere(S) == CHOOSE i \in S : \A j \in S : i <= j
ScannedNames == {f_scan[i].field : i \in 1..Len(f_scan)}

----------------------------------------------------------------------------
(* memory_manager.py: MemoryManager.add_message and get_history *)

SessionIds == {"s1", "s2"}
Roles == {"user", "assistant"}

\* a message text, identified by the number of the add_message call that
\* brought it; long says whether it has more than 50 characters
Content(id, long) == [id |-> id, long |-> long]
InMemoryMessage(role, content) == [role |-> role, content |-> content]

\* session titles: the default "New Chat", a message text, or its first 50
\* characters followed by "..."
NEW_CHAT == [kind |-> "new", of |-> 0]
title_for(content) ==
    [kind |-> IF content.long THEN "truncated" ELSE "whole", of |-> content.id]

\* InMemoryChatSession(session_id=..., max_messages=self._max_messages)
InMemoryChatSession(max) == [title |-> NEW_CHAT, messages |-> <<>>, max_messages |-> max]

Min(a, b) == IF a < b THEN a ELSE b

\* messages[-n:]
py_last(messages, n) ==
    IF n = 0 THEN messages
    ELSE IF n > 0 THEN SubSeq(messages, Len(messages) - Min(n, Len(messages)) + 1, Len(messages))
    ELSE SubSeq(messages, Min(-n, Len(messages)) + 1, Len(messages))

\* a trim that keeps the oldest messages
trim_keep_oldest(messages, max) ==
    IF Len(messages) > max THEN SubSeq(messages, 1, max) ELSE messages

\* lines 145-146: if len(session.messages) > session.max_messages: ...
trim(messages, max) ==
    IF Len(messages) > max THEN py_last(messages, max) ELSE messages

RECURSIVE TotalLen(_, _)
TotalLen(f, S) ==
    IF S = {} THEN 0
    ELSE LET s == CHOOSE x \in S : TRUE IN Len(f[s]) + TotalLen(f, S \ {s})
\* add_message calls made so far
Added == TotalLen(m_added, SessionIds)

\* add_message(session_id, role, content): with a database the row is added
\* there and the call returns; otherwise the session is created if unknown,
\* the message appended, the list trimmed and the title set
MM_AddMessage ==
    /\ Added < MaxAdds
    /\ \E sid \in SessionIds, role \in Roles, long \in BOOLEAN :
          LET content == Content(Added + 1, long)
              msg == InMemoryMessage(role, content)
              session == IF sid \in DOMAIN m_sessions THEN m_sessions[sid]
                         ELSE InMemoryChatSession(m_max)
              after == [title |-> IF role = "user" /\ session.title = NEW_CHAT
                                  THEN title_for(content) ELSE session.title,
                        messages |-> trim(Append(session.messages, msg), session.max_messages),
                        max_messages |-> session.max_messages]
          IN  /\ IF m_use_db
                 THEN /\ m_db' = [m_db EXCEPT ![sid] = Append(@, msg)]
                      /\ UNCHANGED m_sessions
                 ELSE /\ m_sessions' = [s \in DOMAIN m_sessions \cup {sid} |->
                                           IF s = sid THEN after ELSE m_sessions[s]]
                      /\ UNCHANGED m_db
              /\ m_added' = [m_added EXCEPT ![sid] = Append(@, msg)]
    /\ UNCHANGED <<m_max, m_use_db, m_hist, rvars, svars, fvars, evars, pvars>>

\* get_history(session_id): the first max_messages rows of the database, or
\* the messages of the in-memory session ([] when the session is unknown)
MM_GetHistory ==
    /\ \E sid \in SessionIds :
          m_hist' = [sid |-> sid, at |-> Added,
                     msgs |-> IF m_use_db
                              THEN SubSeq(m_db[sid], 1, Min(m_max, Len(m_db[sid])))
                              ELSE IF sid \notin DOMAIN m_sessions THEN <<>>
                              ELSE m_sessions[sid].messages]
    /\ UNCHANGED <<m_max, m_use_db, m_sessions, m_db, m_added, rvars, svars, fvars, evars, pvars>>

\* MemoryManager(max_messages_per_session=...): no session yet; init_db()
\* says whether the database is used
InitMemory ==
    /\ m_max \in 1..MaxCap
    /\ m_use_db \in BOOLEAN
    /\ m_sessions = NoSessions
    /\ m_db = [s \in SessionIds |-> <<>>]
    /\ m_added = [s \in SessionIds |-> <<>>]
    /\ m_hist = [sid |-> "none", at |-> 0, msgs |-> <<>>]
    /\ ResolveIdle
    /\ SymbolIdle
    /\ FetchIdle
    /\ EnrichIdle
    /\ ParseIdle

NextMemory == MM_AddMessage \/ MM_GetHistory

SpecMemory == InitMemory /\ [][NextMemory]_vars

----------------------------------------------------------------------------
(* Claims about parse_holdings (checked under SpecParse) *)

\* a parse_holdings call whose extraction succeeded is under way or over
Parsing == p_pc \in {"resolve", "enrich", "returned"} /\ p_llm.ok
\* the holdings the resolution loop has been through
Resolved == 1..Len(p_res)
\* the hint the extraction left on holding i, and the ticker written on it
RawHint(i) == p_llm.portfolio.holdings[i].ticker_symbol
Tagged(i) == p_portfolio.holdings[i].ticker_symbol
QueriesOf(i) == {k \in 1..Len(e_log) : e_log[k].ev = "query" /\ e_log[k].i = i}

\* C22: a holding for which neither the ISIN nor the hint gave the resolver a
\* ticker is tagged "UNKNOWN"; a holding whose ticker is empty or "UNKNOWN" is
\* enriched without any source query, its fetch being (avg_buy_price, false).
C22_UnresolvedTaggedUnknown ==
    /\ Parsing => \A i \in Resolved : ~TruthyStr(p_res[i]) => Tagged(i) = UNKNOWN
    /\ \A i \in 1..Len(e_fetch) :
          (In(i).ticker_symbol = <<>> \/ In(i).ticker_symbol = UNKNOWN)
              => /\ QueriesOf(i) = {}
                 /\ e_fetch[i] = [price |-> EffectiveAvg(In(i)), ok |-> FALSE]

C27_TickerNeverEmpty ==
    Parsing =>
        /\ \A i \in Resolved :
              /\ Tagged(i) = (IF p_res[i].some /\ p_res[i].val # <<>> THEN p_res[i].val
                              ELSE IF RawHint(i) # <<>> THEN RawHint(i)
                              ELSE UNKNOWN)
              /\ Tagged(i) # <<>>
        /\ e_pc # "idle"
              => \A i \in 1..Len(e_input.holdings) : In(i).ticker_symbol # <<>>

\* the resolver answered "" for a suffix-only hint, which stays as the
\* ticker, and None for a holding with no ISIN and no hint, tagged "UNKNOWN"
C27_Witness ==
    /\ p_pc = "returned"
    /\ p_ret.some
    /\ Len(p_res) = 2
    /\ p_res[1] = Str(<<>>) /\ p_ret.val.holdings[1].ticker_symbol = DOT_NS
    /\ p_res[2] = None /\ p_ret.val.holdings[2].ticker_symbol = UNKNOWN

----------------------------------------------------------------------------
(* Claims about MemoryManager (checked under SpecMemory) *)

\* C30: with in-memory storage, after any add_message calls every session
\* that was given a message exists and holds the last max_messages messages
\* given to it, in the order given, and get_history returns that list.
C30_KeepsMostRecent ==
    (m_max >= 1 /\ ~m_use_db) =>
        /\ \A s \in SessionIds :
              /\ m_added[s] # <<>> => s \in DOMAIN m_sessions
              /\ s \in DOMAIN m_sessions
                    => LET n == Len(m_added[s])
                           k == Min(n, m_sessions[s].max_messages)
                       IN  /\ Len(m_sessions[s].messages) <= m_sessions[s].max_messages
                           /\ m_sessions[s].messages = SubSeq(m_added[s], n - k + 1, n)
        /\ (m_hist.sid # "none" /\ m_hist.at = Added)
              => m_hist.msgs = (IF m_hist.sid \in DOMAIN m_sessions
                                THEN m_sessions[m_hist.sid].messages ELSE <<>>)

\* a session limited to 2 messages was given 3 and holds the 2nd and 3rd
C30_Witness ==
    /\ ~m_use_db
    /\ m_max = 2
    /\ Len(m_added["s1"]) = 3
    /\ "s1" \in DOMAIN m_sessions
    /\ m_sessions["s1"].messages = <<m_added["s1"][2], m_added["s1"][3]>>
    /\ m_hist.sid = "s1" /\ m_hist.msgs = m_sessions["s1"].messages

====
